---- MODULE Spec2Model ----
(***************************************************************************)
(* Model of the CRUD service client (CrudClient) and of its helpers        *)
(* getHttpErrors and queryFromFilter.                                      *)
(*                                                                         *)
(* One client call is in flight at a time: Call starts an operation        *)
(* (issuing its HTTP request unless the operation rejects locally), then   *)
(* the transport either answers (Respond), fails (Fail) or, for getExport, *)
(* delivers stream events (StreamData, StreamEnd, StreamError).            *)
(*                                                                         *)
(* JavaScript values are records tagged with their type in field t, so     *)
(* that values of different types can be compared.  Texts that are only    *)
(* compared or concatenated are strings; the export body, which is split   *)
(* and parsed character by character, is a sequence of one-character       *)
(* strings.                                                                *)
(***************************************************************************)
EXTENDS Integers, Sequences, FiniteSets, TLC

VARIABLES
  pc,        \* "idle", "pending" (awaiting the response), "streaming", "settled"
  op,        \* the operation of the current call
  filter,    \* the filter argument of the current call
  headers,   \* ctx.headersToProxy of the current call
  requests,  \* the HTTP requests the current call has issued, in order
  stream,    \* getExport: "none", or the stream "open", "ended", "errored"
  data,      \* getExport: the text accumulated from the 'data' chunks
  caught,    \* the error bound by the operation's catch clause, if any
  outcome,   \* what the caller got: nothing yet, a value or an error
  logs,      \* the logger.error events of the current call, in order
  calls,     \* two getExport calls in flight at once, each with its stream
  client     \* the prefix URL and the resource the client was built with

vars ==
  <<pc, op, filter, headers, requests, stream, data, caught, outcome, logs,
    calls, client>>

----------------------------------------------------------------------------
(* Bounds of the model *)

\* longest export body (in characters) in the export specification
MaxBody == 4
\* longest export body in the specification of all operations
MaxBodyAll == 1

----------------------------------------------------------------------------
(* JavaScript values *)

Undefined == [t |-> "undefined"]
Null == [t |-> "null"]
Str(s) == [t |-> "string", s |-> s]
Num(n) == [t |-> "number", n |-> n]
\* an object is the sequence of its own enumerable key/value pairs
Obj(pairs) == [t |-> "object", pairs |-> pairs]
Arr(items) == [t |-> "array", items |-> items]
\* a Date, by the ISO text Date.prototype.toJSON gives for it
Date(iso) == [t |-> "date", iso |-> iso]

\* ToBoolean of the values above
Truthy(v) ==
  CASE v.t = "undefined" -> FALSE
    [] v.t = "null" -> FALSE
    [] v.t = "string" -> v.s # ""
    [] v.t = "number" -> v.n # 0
    [] OTHER -> TRUE

\* property read v.key; reading a property of a string or a number that
\* is not there gives undefined
Get(v, key) ==
  IF v.t = "object" /\ \E i \in 1..Len(v.pairs) : v.pairs[i].k = key
  THEN v.pairs[CHOOSE i \in 1..Len(v.pairs) : v.pairs[i].k = key].v
  ELSE Undefined

----------------------------------------------------------------------------
(* Errors *)

NoResponse == [present |-> FALSE]
Response(status, body) == [present |-> TRUE, statusCode |-> status, body |-> body]

\* an Error object as the catch clauses see it: a got RequestError carries
\* a response when one was received; every other error carries none
JsError(name, message, response) ==
  [name |-> name, message |-> message, response |-> response]

\* the error http-errors builds from a status code and a message
HttpError(status, message) ==
  [name |-> "HttpError", statusCode |-> status, message |-> message,
   response |-> NoResponse]

Statuses == {200, 400, 500, 503}

Bodies ==
  { Undefined,
    Str("Bad Request"),
    Obj(<<[k |-> "error", v |-> Str("Bad Request")]>>),
    Obj(<<[k |-> "message", v |-> Str("")]>>),
    Obj(<<[k |-> "message", v |-> Str("A message of error")]>>),
    Obj(<<[k |-> "message", v |-> Num(42)]>>) }

ErrorMessages == {"", "Response code 400 (Bad Request)", "connect ECONNREFUSED"}

\* the failures the transport (got) can raise: without a response, or
\* with the response that failed, and then with a message that names the
\* response code; a response with a success status fails when its body
\* cannot be parsed, and then keeps the body as a text
RequestErrors ==
  { JsError("RequestError", m, NoResponse) : m \in ErrorMessages }
  \cup
  { e \in { JsError("RequestError", m, Response(s, b)) :
              m \in ErrorMessages \ {""}, s \in Statuses, b \in Bodies } :
      e.response.statusCode < 300
        => e.response.body.t \in {"undefined", "string"} }

\* the status code of the response never looked at
GetGotErrorStatusCodeNone(error) == Undefined

\* error.response?.statusCode
GetGotErrorStatusCode(error) ==
  IF error.response.present /\ error.response.statusCode # 0
  THEN Num(error.response.statusCode)
  ELSE Undefined

\* the chain in another order: the error's own message first
GetGotErrorMessageOwnFirst(error) ==
  IF error.message # ""
  THEN Str(error.message)
  ELSE IF /\ error.response.present
          /\ Truthy(error.response.body)
          /\ Truthy(Get(error.response.body, "message"))
       THEN Get(error.response.body, "message")
       ELSE Str("Something went wrong")

\* error.response?.body && body.message, else error.message, else the
\* fixed text; the value is returned as found, whatever its type
GetGotErrorMessage(error) ==
  IF /\ error.response.present
     /\ Truthy(error.response.body)
     /\ Truthy(Get(error.response.body, "message"))
  THEN Get(error.response.body, "message")
  ELSE IF error.message # ""
       THEN Str(error.message)
       ELSE Str("Something went wrong")

\* httpErrors(status, message) of http-errors 2: a message that is neither
\* a string nor an object is refused with a TypeError
HttpErrors(status, message) ==
  IF message.t = "string"
  THEN HttpError(status.n, message.s)
  ELSE JsError("TypeError", "argument #2 unsupported type " \o message.t,
               NoResponse)

\* getHttpErrors: what `throw getHttpErrors(error)` throws
GetHttpErrors(error) ==
  LET code == GetGotErrorStatusCode(error) IN
  HttpErrors(IF code = Undefined THEN Num(500) ELSE code,
             GetGotErrorMessage(error))

----------------------------------------------------------------------------
(* Filters and queryFromFilter *)

\* a Filter: every field is either undefined (not populated) or a value
Filter(q, l, sk, s, p, rawp) ==
  [mongoQuery |-> q, limit |-> l, skip |-> sk, sort |-> s,
   projection |-> p, rawProjection |-> rawp]

MongoQueries ==
  { Undefined, Obj(<<>>), Obj(<<[k |-> "field", v |-> Str("value")]>>) }

Limits == { Undefined, Num(0), Num(200) }

Projections == { Undefined, Arr(<<>>), Arr(<<"field">>) }

\* the filters the operations are called with
Filters ==
  { Filter(q, l, Undefined, Undefined, p, Undefined) :
      q \in MongoQueries, l \in Limits, p \in Projections }

\* isEmpty taken for a test of presence: an empty object passes
isEmptyMissingOnly(v) == v.t \in {"undefined", "null"}

\* lodash isEmpty on undefined and on plain objects
isEmpty(v) ==
  CASE v.t = "undefined" -> TRUE
    [] v.t = "null" -> TRUE
    [] v.t = "object" -> Len(v.pairs) = 0
    [] v.t = "array" -> Len(v.items) = 0
    [] v.t = "string" -> v.s = ""
    [] OTHER -> TRUE

RECURSIVE Join(_, _)
\* Array.prototype.join on an array of strings
Join(items, sep) ==
  IF Len(items) = 0 THEN ""
  ELSE IF Len(items) = 1 THEN items[1]
  ELSE items[1] \o sep \o Join(Tail(items), sep)

RECURSIVE JSONStringifyBare(_)
\* JSON.stringify taken to write the texts of strings without their quotes
JSONStringifyBare(v) ==
  CASE v.t = "string" -> v.s
    [] v.t = "number" -> ToString(v.n)
    [] v.t = "null" -> "null"
    [] v.t = "date" -> v.iso
    [] v.t = "object" ->
         LET kept == SelectSeq(v.pairs, LAMBDA e : e.v # Undefined) IN
         "{" \o Join([i \in 1..Len(kept) |->
                        "\"" \o kept[i].k \o "\":" \o JSONStringifyBare(kept[i].v)],
                     ",") \o "}"
    [] v.t = "array" ->
         "[" \o Join([i \in 1..Len(v.items) |-> v.items[i]], ",") \o "]"

RECURSIVE JSONStringify(_)
\* JSON.stringify: compact JSON text of a value; a property whose value
\* is undefined is left out of the text of its object
JSONStringify(v) ==
  CASE v.t = "string" -> "\"" \o v.s \o "\""
    [] v.t = "number" -> ToString(v.n)
    [] v.t = "null" -> "null"
    [] v.t = "date" -> "\"" \o v.iso \o "\""
    [] v.t = "object" ->
         LET kept == SelectSeq(v.pairs, LAMBDA e : e.v # Undefined) IN
         "{" \o Join([i \in 1..Len(kept) |->
                        "\"" \o kept[i].k \o "\":" \o JSONStringify(kept[i].v)],
                     ",") \o "}"
    [] v.t = "array" ->
         "[" \o Join([i \in 1..Len(v.items) |-> "\"" \o v.items[i] \o "\""], ",") \o "]"

\* the entries with limit and skip tested for truthiness, as mongoQuery is
QueryEntriesTruthy(f) ==
  << [k |-> "_q",
      v |-> IF Truthy(f.mongoQuery) THEN Str(JSONStringify(f.mongoQuery))
            ELSE Undefined],
     [k |-> "_l", v |-> IF Truthy(f.limit) THEN f.limit ELSE Undefined],
     [k |-> "_p",
      v |-> IF f.projection = Undefined THEN Undefined
            ELSE Str(Join(f.projection.items, ","))],
     [k |-> "_s", v |-> f.sort],
     [k |-> "_sk", v |-> IF Truthy(f.skip) THEN f.skip ELSE Undefined],
     [k |-> "_rawp",
      v |-> IF Truthy(f.rawProjection) THEN Str(JSONStringify(f.rawProjection))
            ELSE Undefined] >>

\* the entries with sort and skip written under each other's key
QueryEntriesSwapped(f) ==
  << [k |-> "_q",
      v |-> IF Truthy(f.mongoQuery) THEN Str(JSONStringify(f.mongoQuery))
            ELSE Undefined],
     [k |-> "_l", v |-> f.limit],
     [k |-> "_p",
      v |-> IF f.projection = Undefined THEN Undefined
            ELSE Str(Join(f.projection.items, ","))],
     [k |-> "_s", v |-> f.skip],
     [k |-> "_sk", v |-> f.sort],
     [k |-> "_rawp",
      v |-> IF Truthy(f.rawProjection) THEN Str(JSONStringify(f.rawProjection))
            ELSE Undefined] >>

\* the object handed to qs.stringify, as the sequence of its entries
QueryEntries(f) ==
  << [k |-> "_q",
      v |-> IF Truthy(f.mongoQuery) THEN Str(JSONStringify(f.mongoQuery))
            ELSE Undefined],
     [k |-> "_l", v |-> f.limit],
     [k |-> "_p",
      v |-> IF f.projection = Undefined THEN Undefined
            ELSE Str(Join(f.projection.items, ","))],
     [k |-> "_s", v |-> f.sort],
     [k |-> "_sk", v |-> f.skip],
     [k |-> "_rawp",
      v |-> IF Truthy(f.rawProjection) THEN Str(JSONStringify(f.rawProjection))
            ELSE Undefined] >>

\* qs.stringify taken to write every entry, an undefined value as "key="
QsStringifyAll(entries) ==
  [t |-> "query",
   pairs |-> [i \in 1..Len(entries) |->
                [k |-> entries[i].k,
                 v |-> IF entries[i].v = Undefined THEN ""
                       ELSE IF entries[i].v.t = "number"
                            THEN ToString(entries[i].v.n)
                       ELSE entries[i].v.s]]]

\* qs.stringify: entries whose value is undefined are skipped, the others
\* are written key=value in order; the query is kept as the sequence of
\* its key/value texts (before percent-encoding)
QsStringify(entries) ==
  LET kept == SelectSeq(entries, LAMBDA e : e.v # Undefined) IN
  [t |-> "query",
   pairs |-> [i \in 1..Len(kept) |->
                [k |-> kept[i].k,
                 v |-> IF kept[i].v.t = "number" THEN ToString(kept[i].v.n)
                       ELSE kept[i].v.s]]]

queryFromFilter(f) ==
  IF f = Undefined THEN Undefined ELSE QsStringify(QueryEntries(f))

----------------------------------------------------------------------------
(* The NDJSON body of getExport *)

\* the characters an export body is made of
Chars == {"1", "{", "}", " ", "\n"}

\* the chunks a 'data' event can carry
Chunks == { <<c>> : c \in Chars } \cup { <<c, d>> : c \in Chars, d \in Chars }

\* the two bytes of the UTF-8 encoding of one character that is not
\* ASCII, that character, and the replacement character U+FFFD
LeadByte == "0xC3"
ContinuationByte == "0xA9"
TwoByteChar == "U+00E9"
ReplacementChar == "U+FFFD"

RECURSIVE ChunkToString(_)
\* chunk.toString(): the bytes of the chunk decoded as UTF-8 on their own;
\* an ASCII byte is its character, the two bytes of a character give it
\* when the chunk holds both, and a byte of an incomplete sequence gives
\* the replacement character
ChunkToString(chunk) ==
  IF Len(chunk) = 0 THEN <<>>
  ELSE IF chunk[1] = LeadByte
  THEN IF Len(chunk) >= 2 /\ chunk[2] = ContinuationByte
       THEN <<TwoByteChar>> \o ChunkToString(SubSeq(chunk, 3, Len(chunk)))
       ELSE <<ReplacementChar>> \o ChunkToString(Tail(chunk))
  ELSE IF chunk[1] = ContinuationByte
  THEN <<ReplacementChar>> \o ChunkToString(Tail(chunk))
  ELSE <<chunk[1]>> \o ChunkToString(Tail(chunk))

\* white space as String.prototype.trim and JSON.parse see it
WhiteSpace == {" ", "\n"}

Digits == {"1"}

RECURSIVE SplitTerminated(_, _)
\* split that keeps only the pieces a separator ends: the text after the
\* last separator is dropped
SplitTerminated(s, sep) ==
  IF \A i \in 1..Len(s) : s[i] # sep
  THEN <<>>
  ELSE LET i == CHOOSE j \in 1..Len(s) :
                  s[j] = sep /\ \A k \in 1..(j - 1) : s[k] # sep
       IN <<SubSeq(s, 1, i - 1)>> \o SplitTerminated(SubSeq(s, i + 1, Len(s)), sep)

RECURSIVE Split(_, _)
\* String.prototype.split(sep) with a one-character separator: the pieces
\* between the separators, empty pieces included
Split(s, sep) ==
  IF \A i \in 1..Len(s) : s[i] # sep
  THEN <<s>>
  ELSE LET i == CHOOSE j \in 1..Len(s) :
                  s[j] = sep /\ \A k \in 1..(j - 1) : s[k] # sep
       IN <<SubSeq(s, 1, i - 1)>> \o Split(SubSeq(s, i + 1, Len(s)), sep)

\* no trimming: only the empty line is taken for blank
TrimNothing(s) == s

\* String.prototype.trim
Trim(s) ==
  IF \A i \in 1..Len(s) : s[i] \in WhiteSpace
  THEN <<>>
  ELSE LET first == CHOOSE i \in 1..Len(s) :
                      s[i] \notin WhiteSpace /\ \A k \in 1..(i - 1) : s[k] \in WhiteSpace
           last == CHOOSE i \in 1..Len(s) :
                     s[i] \notin WhiteSpace /\ \A k \in (i + 1)..Len(s) : s[k] \in WhiteSpace
       IN SubSeq(s, first, last)

\* the first position from i on that holds no character of set S
\* (Len(s) + 1 when there is none)
Skip(s, i, S) ==
  CHOOSE j \in i..(Len(s) + 1) :
    /\ \A k \in i..(j - 1) : s[k] \in S
    /\ j = Len(s) + 1 \/ s[j] \notin S

RECURSIVE DecimalValue(_)
\* the number a sequence of digits denotes
DecimalValue(ds) ==
  IF Len(ds) = 0 THEN 0
  ELSE 10 * DecimalValue(SubSeq(ds, 1, Len(ds) - 1))
       + (CASE ds[Len(ds)] = "1" -> 1)

ParseFailure(message) == [ok |-> FALSE, message |-> message]

\* JSON.parse of a text: white space, then a number, an (empty) object or
\* a string between quotes, then white space up to the end of the text
JSONParse(s) ==
  LET start == Skip(s, 1, WhiteSpace) IN
  IF start > Len(s) THEN ParseFailure("Unexpected end of JSON input")
  ELSE IF s[start] = "\""
  THEN IF \A k \in (start + 1)..Len(s) : s[k] # "\""
       THEN ParseFailure("Unexpected end of JSON input")
       ELSE LET close == CHOOSE k \in (start + 1)..Len(s) :
                           s[k] = "\"" /\ \A j \in (start + 1)..(k - 1) : s[j] # "\""
            IN IF \E j \in (start + 1)..(close - 1) : s[j] = "\n"
               THEN ParseFailure("Unexpected token in JSON")
               ELSE IF Skip(s, close + 1, WhiteSpace) > Len(s)
               THEN [ok |-> TRUE,
                     value |-> Str(Join(SubSeq(s, start + 1, close - 1), ""))]
               ELSE ParseFailure("Unexpected token in JSON")
  ELSE IF s[start] \in Digits
  THEN LET next == Skip(s, start, Digits)
           rest == Skip(s, next, WhiteSpace)
       IN IF rest > Len(s)
          THEN [ok |-> TRUE, value |-> Num(DecimalValue(SubSeq(s, start, next - 1)))]
          ELSE ParseFailure("Unexpected token in JSON")
  ELSE IF s[start] = "{"
  THEN LET close == Skip(s, start + 1, WhiteSpace) IN
       IF close > Len(s) THEN ParseFailure("Unexpected end of JSON input")
       ELSE IF s[close] # "}" THEN ParseFailure("Unexpected token in JSON")
       ELSE IF Skip(s, close + 1, WhiteSpace) > Len(s)
       THEN [ok |-> TRUE, value |-> Obj(<<>>)]
       ELSE ParseFailure("Unexpected token in JSON")
  ELSE ParseFailure("Unexpected token in JSON")

\* data.split('\n').filter(line => line.trim() !== '')
NonEmptyLines(text) ==
  SelectSeq(Split(text, "\n"), LAMBDA line : Trim(line) # <<>>)

\* parsing that skips the lines that do not parse
ParseNdjsonSkipBad(text) ==
  LET lines == SelectSeq(Split(text, "\n"),
                         LAMBDA line : Trim(line) # <<>> /\ JSONParse(line).ok)
  IN [ok |-> TRUE, items |-> [i \in 1..Len(lines) |-> JSONParse(lines[i]).value]]

\* .map(line => JSON.parse(line)): the parsed lines, or the SyntaxError of
\* the first line that does not parse
ParseNdjson(text) ==
  LET lines == NonEmptyLines(text)
      parsed == [i \in 1..Len(lines) |-> JSONParse(lines[i])]
  IN IF \A i \in 1..Len(lines) : parsed[i].ok
     THEN [ok |-> TRUE, items |-> [i \in 1..Len(lines) |-> parsed[i].value]]
     ELSE LET bad == CHOOSE i \in 1..Len(lines) :
                       ~parsed[i].ok /\ \A k \in 1..(i - 1) : parsed[k].ok
          IN [ok |-> FALSE,
              error |-> JsError("SyntaxError", parsed[bad].message, NoResponse)]

----------------------------------------------------------------------------
(* Requests *)

NoHeaders == [name \in {} |-> ""]

\* the values of ctx.headersToProxy
HeadersToProxy ==
  { NoHeaders, "foo" :> "bar", "content-type" :> "text/plain" }

\* { ...headersToProxy, 'content-type': value }: the operation's content
\* type written over the caller's
WithDefaultForced(value, h) == ("content-type" :> value) @@ h

\* { 'content-type': value, ...headersToProxy }
WithDefault(value, h) == h @@ ("content-type" :> value)

\* new CrudClient(prefixUrl, resource)
CrudClient(prefixUrl, resource) == [prefixUrl |-> prefixUrl, resource |-> resource]

\* the client of the tests, and one for another resource of the same
\* backend
TestClient == CrudClient("https://example.org", "test-crud")
Clients == { TestClient, CrudClient("https://example.org", "other-crud") }

\* the URL of a path under the resource of the client
UrlWithResource(c, path) == c.prefixUrl \o "/" \o c.resource \o "/" \o path

\* the URL got requests for a path: the prefixUrl the instance was extended
\* with, a slash, and the path
Url(c, path) == c.prefixUrl \o "/" \o path

\* the request got sends for the given options; with a json body got
\* adds the JSON content type unless the headers already carry one
Request(method, path, searchParams, h, json) ==
  [method |-> method, path |-> path, url |-> Url(client, path),
   searchParams |-> searchParams,
   headers |-> IF json # Undefined /\ "content-type" \notin DOMAIN h
               THEN WithDefault("application/json", h) ELSE h,
   json |-> json]

\* the arguments the operations are called with, besides filter and ctx
id == "my-id"
Body == Obj(<<[k |-> "property", v |-> Str("my-property")]>>)

\* the bodies of the responses with a success status
SuccessBodies ==
  { Null, Num(3), Obj(<<[k |-> "_id", v |-> Str("my-id")]>>) }

----------------------------------------------------------------------------
(* Outcomes of a call *)

NoError == JsError("none", "", NoResponse)
Pending == [kind |-> "pending"]
Resolved(value) == [kind |-> "resolved", value |-> value]
Rejected(error) == [kind |-> "rejected", error |-> error]

\* the two concurrent calls of getExport
CallIds == {1, 2}

\* a call of getExport and its stream: the text the stream has emitted, how
\* the stream finished, the text the call's handlers have accumulated, and
\* what the caller got; besides, the number of 'data' events the text
\* came in
ExportCall(callPc, emitted, finished, buffer, result) ==
  [pc |-> callPc, emitted |-> emitted, finished |-> finished,
   data |-> buffer, outcome |-> result, received |-> 0]

\* how a stream has finished: not yet, with 'end', or with an 'error'
Unfinished == [event |-> "none"]
Ended == [event |-> "end"]
Errored(error) == [event |-> "error", error |-> error]

NoCall == ExportCall("idle", <<>>, Unfinished, <<>>, Pending)

Init ==
  /\ pc = "idle"
  /\ op = "none"
  /\ filter = Undefined
  /\ headers = NoHeaders
  /\ requests = <<>>
  /\ stream = "none"
  /\ data = <<>>
  /\ caught = NoError
  /\ outcome = Pending
  /\ logs = <<>>
  /\ calls = [c \in CallIds |-> NoCall]
  /\ client = TestClient

\* the state after construction, for each of the clients
InitClients ==
  /\ pc = "idle"
  /\ op = "none"
  /\ filter = Undefined
  /\ headers = NoHeaders
  /\ requests = <<>>
  /\ stream = "none"
  /\ data = <<>>
  /\ caught = NoError
  /\ outcome = Pending
  /\ logs = <<>>
  /\ calls = [c \in CallIds |-> NoCall]
  /\ client \in Clients

\* an operation starts: its request is issued and the call awaits
Start(o, f, h, request, waiting) ==
  /\ pc = "idle"
  /\ pc' = waiting
  /\ op' = o
  /\ filter' = f
  /\ headers' = h
  /\ requests' = <<request>>
  /\ stream' = IF waiting = "streaming" THEN "open" ELSE "none"
  /\ data' = <<>>
  /\ caught' = NoError
  /\ outcome' = Pending
  /\ logs' = <<>>
  /\ UNCHANGED <<calls, client>>

----------------------------------------------------------------------------
(* The operations of CrudClient *)

getList(f, h) ==
  Start("getList", f, h,
        Request("GET", "", queryFromFilter(f),
                WithDefault("application/json", h), Undefined),
        "pending")

\* an export that asks with the content type of the other GET operations
getExportAsJson(f, h) ==
  Start("getExport", f, h,
        Request("GET", "export", queryFromFilter(f),
                WithDefault("application/json", h), Undefined),
        "streaming")

getExport(f, h) ==
  Start("getExport", f, h,
        Request("GET", "export", queryFromFilter(f),
                WithDefault("application/x-ndjson", h), Undefined),
        "streaming")

count(f, h) ==
  Start("count", f, h,
        Request("GET", "count", queryFromFilter(f),
                WithDefault("application/json", h), Undefined),
        "pending")

getById(f, h) ==
  Start("getById", f, h,
        Request("GET", id, queryFromFilter(f),
                WithDefault("application/json", h), Undefined),
        "pending")

create(h) ==
  Start("create", Undefined, h,
        Request("POST", "", Undefined, h, Body), "pending")

bulkInsert(h) ==
  Start("bulkInsert", Undefined, h,
        Request("POST", "bulk", Undefined, h, Arr(<<Body>>)), "pending")

upsertOne(f, h) ==
  Start("upsertOne", f, h,
        Request("POST", "upsert-one", queryFromFilter(f), h, Body), "pending")

updateById(f, h) ==
  Start("updateById", f, h,
        Request("PATCH", id, queryFromFilter(f), h, Body), "pending")

\* an updateMany with the guard of delete
updateManyGuarded(f, h) ==
  IF f = Undefined \/ isEmpty(f.mongoQuery)
  THEN /\ pc = "idle"
       /\ pc' = "settled"
       /\ op' = "updateMany"
       /\ filter' = f
       /\ headers' = h
       /\ requests' = <<>>
       /\ stream' = "none"
       /\ data' = <<>>
       /\ caught' = NoError
       /\ outcome' = Rejected(HttpError(400, "Mongo query is required"))
       /\ logs' = <<>>
       /\ UNCHANGED <<calls, client>>
  ELSE Start("updateMany", f, h,
             Request("PATCH", "", queryFromFilter(f), h, Body), "pending")

updateMany(f, h) ==
  Start("updateMany", f, h,
        Request("PATCH", "", queryFromFilter(f), h, Body), "pending")

updateBulk(h) ==
  Start("updateBulk", Undefined, h,
        Request("PATCH", "bulk", Undefined, h, Arr(<<Body>>)), "pending")

\* a trash that deletes the item instead of changing its state
trashAsDelete(h) ==
  Start("trash", Undefined, h,
        Request("DELETE", id, Undefined, h, Undefined), "pending")

trash(h) ==
  Start("trash", Undefined, h,
        Request("POST", id \o "/state", Undefined, h,
                Obj(<<[k |-> "stateTo", v |-> Str("TRASH")]>>)),
        "pending")

deleteOne(h) ==
  Start("deleteOne", Undefined, h,
        Request("DELETE", id, Undefined, h, Undefined), "pending")

\* delete refuses an empty mongoQuery before anything else is done
delete(f, h) ==
  IF isEmpty(f.mongoQuery)
  THEN /\ pc = "idle"
       /\ pc' = "settled"
       /\ op' = "delete"
       /\ filter' = f
       /\ headers' = h
       /\ requests' = <<>>
       /\ stream' = "none"
       /\ data' = <<>>
       /\ caught' = NoError
       /\ outcome' = Rejected(HttpError(400, "Mongo query is required"))
       /\ logs' = <<>>
       /\ UNCHANGED <<calls, client>>
  ELSE Start("delete", f, h,
             Request("DELETE", "", queryFromFilter(f), h, Undefined), "pending")

\* the message of the operation's logger.error call
FailureLog(o) ==
  CASE o = "getList" -> "fails to get list of item"
    [] o = "getExport" -> "fails to get full export of data"
    [] o = "count" -> "fails to count items"
    [] o = "getById" -> "fails to get item by id"
    [] o = "create" -> "fails to create item"
    [] o = "bulkInsert" -> "fails to create items in bulk"
    [] o = "upsertOne" -> "fails to upsert item"
    [] o = "updateById" -> "fails to update item by id"
    [] o = "updateMany" -> "failed to update items"
    [] o = "updateBulk" -> "failed to update items"
    [] o = "trash" -> "failed to trash item by id"
    [] o = "deleteOne" -> "failed to delete item by id"
    [] o = "delete" -> "failed to delete items"

\* a catch clause that logs and throws the caught error as it is
CatchRethrow(error) ==
  /\ pc' = "settled"
  /\ caught' = error
  /\ logs' = Append(logs, FailureLog(op))
  /\ outcome' = Rejected(error)
  /\ UNCHANGED <<op, filter, headers, requests, data, calls, client>>

\* the catch clause of every operation: one error log, then the error
\* getHttpErrors makes of the caught one is thrown to the caller
Catch(error) ==
  /\ pc' = "settled"
  /\ caught' = error
  /\ logs' = Append(logs, FailureLog(op))
  /\ outcome' = Rejected(GetHttpErrors(error))
  /\ UNCHANGED <<op, filter, headers, requests, data, calls, client>>

\* the property of the response body the operation reads for its debug
\* log, inside the try block
LoggedProperty(o) ==
  CASE o = "getList" -> "length"
    [] o \in {"create", "upsertOne"} -> "_id"
    [] OTHER -> ""

\* the value the operation returns for a response body
Returned(o, body) ==
  IF o \in {"trash", "deleteOne"} THEN Undefined ELSE body

\* the exchange completes with a success status and the given body
Respond(body) ==
  /\ pc = "pending"
  /\ IF LoggedProperty(op) # "" /\ body \in {Null, Undefined}
     THEN Catch(JsError("TypeError",
                        "Cannot read properties of null (reading '"
                          \o LoggedProperty(op) \o "')",
                        NoResponse))
     ELSE /\ pc' = "settled"
          /\ outcome' = Resolved(Returned(op, body))
          /\ UNCHANGED <<op, filter, headers, requests, data, caught, logs, calls, client>>
  /\ UNCHANGED stream

\* the retry limit the client is built with: got.extend({ retry: 0 })
RetryLimit == 0

\* the failures got sends a request again for, while its retry limit
\* allows: no response or one of the retried status codes, for the
\* methods got retries
GotRetries(method, error) ==
  /\ method \in {"GET", "PUT", "HEAD", "DELETE", "OPTIONS", "TRACE"}
  /\ \/ ~error.response.present
     \/ error.response.statusCode \in {408, 413, 429, 500, 502, 503, 504, 521, 522, 524}

\* the exchange fails with a client left at got's default retry limit
FailRetrying(error) ==
  /\ pc = "pending"
  /\ IF Len(requests) <= 2 /\ GotRetries(requests[1].method, error)
     THEN /\ requests' = Append(requests, requests[1])
          /\ UNCHANGED <<pc, op, filter, headers, data, caught, outcome, logs, calls, client>>
     ELSE Catch(error)
  /\ UNCHANGED stream

\* the exchange fails: a non-success status, or no complete response; got
\* sends the request again only while fewer than RetryLimit retries were
\* made, and the failure then reaches the catch clause
Fail(error) ==
  /\ pc = "pending"
  /\ IF Len(requests) <= RetryLimit /\ GotRetries(requests[1].method, error)
     THEN /\ requests' = Append(requests, requests[1])
          /\ UNCHANGED <<pc, op, filter, headers, data, caught, outcome, logs, calls, client>>
     ELSE Catch(error)
  /\ UNCHANGED stream

\* the caller has taken the outcome; nothing of the call is kept, and the
\* client is ready for the next call
Return ==
  /\ pc = "settled"
  /\ pc' = "idle"
  /\ op' = "none"
  /\ filter' = Undefined
  /\ headers' = NoHeaders
  /\ requests' = <<>>
  /\ stream' = "none"
  /\ data' = <<>>
  /\ caught' = NoError
  /\ outcome' = Pending
  /\ logs' = <<>>
  /\ UNCHANGED <<calls, client>>

----------------------------------------------------------------------------
(* The stream of getExport *)

\* the errors the export stream can raise: in stream mode got leaves the
\* body of a failed response unparsed (a text, or nothing)
StreamErrors ==
  { e \in RequestErrors :
      e.response.present => e.response.body.t \in {"undefined", "string"} }

\* 'data' that settles the call: the text received so far is parsed and
\* returned at once, while the stream is still open
StreamDataEager(chunk, maxLen) ==
  /\ pc = "streaming"
  /\ Len(data) + Len(chunk) <= maxLen
  /\ data' = data \o ChunkToString(chunk)
  /\ pc' = "settled"
  /\ outcome' = Resolved(Arr(ParseNdjsonSkipBad(data \o ChunkToString(chunk)).items))
  /\ UNCHANGED <<op, filter, headers, requests, stream, caught, logs, calls, client>>

\* 'data': the chunk is appended to the text received so far
StreamData(chunk, maxLen) ==
  /\ pc = "streaming"
  /\ Len(data) + Len(chunk) <= maxLen
  /\ data' = data \o ChunkToString(chunk)
  /\ UNCHANGED <<pc, op, filter, headers, requests, stream, caught, outcome, logs,
                 calls, client>>

\* 'end': the text is split into lines and parsed; the promise resolves
\* with the records, or rejects with the parser's error, which the catch
\* clause of getExport then handles
StreamEnd ==
  /\ pc = "streaming"
  /\ stream' = "ended"
  /\ UNCHANGED <<calls, client>>
  /\ LET parsed == ParseNdjson(data) IN
     IF parsed.ok
     THEN /\ pc' = "settled"
          /\ outcome' = Resolved(Arr(parsed.items))
          /\ UNCHANGED <<op, filter, headers, requests, data, caught, logs>>
     ELSE /\ pc' = "settled"
          /\ caught' = parsed.error
          /\ logs' = logs \o <<"fails to parse the NDJSON data", FailureLog(op)>>
          /\ outcome' = Rejected(GetHttpErrors(parsed.error))
          /\ UNCHANGED <<op, filter, headers, requests, data>>

\* 'error' handled as 'end': the records received so far are returned
StreamErrorAsEnd(error) ==
  /\ pc = "streaming"
  /\ stream' = "errored"
  /\ pc' = "settled"
  /\ caught' = error
  /\ outcome' = Resolved(Arr(ParseNdjsonSkipBad(data).items))
  /\ UNCHANGED <<op, filter, headers, requests, data, logs, calls, client>>

\* 'error': the promise rejects with the stream's error
StreamError(error) ==
  /\ pc = "streaming"
  /\ stream' = "errored"
  /\ Catch(error)

----------------------------------------------------------------------------
(* Specifications *)

\* the filters of count (no projection) and of getById (projection only)
CountFilters == { f \in Filters : f.projection = Undefined }
GetByIdFilters ==
  { f \in Filters : f.mongoQuery = Undefined /\ f.limit = Undefined }

\* every operation of the client
Next ==
  \/ \E f \in Filters \cup {Undefined}, h \in HeadersToProxy : getList(f, h)
  \/ \E f \in Filters \cup {Undefined}, h \in HeadersToProxy : getExport(f, h)
  \/ \E f \in CountFilters \cup {Undefined}, h \in HeadersToProxy : count(f, h)
  \/ \E f \in GetByIdFilters \cup {Undefined}, h \in HeadersToProxy : getById(f, h)
  \/ \E h \in HeadersToProxy : create(h)
  \/ \E h \in HeadersToProxy : bulkInsert(h)
  \/ \E f \in Filters \cup {Undefined}, h \in HeadersToProxy : upsertOne(f, h)
  \/ \E f \in Filters \cup {Undefined}, h \in HeadersToProxy : updateById(f, h)
  \/ \E f \in Filters \cup {Undefined}, h \in HeadersToProxy : updateMany(f, h)
  \/ \E h \in HeadersToProxy : updateBulk(h)
  \/ \E h \in HeadersToProxy : trash(h)
  \/ \E h \in HeadersToProxy : deleteOne(h)
  \/ \E f \in Filters, h \in HeadersToProxy : delete(f, h)
  \/ \E body \in SuccessBodies : Respond(body)
  \/ \E error \in RequestErrors : Fail(error)
  \/ \E chunk \in Chunks : StreamData(chunk, MaxBodyAll)
  \/ StreamEnd
  \/ \E error \in StreamErrors : StreamError(error)
  \/ Return

Spec == Init /\ [][Next]_vars

\* the filters getExport is called with in the export specification
ExportFilters ==
  { Undefined,
    Filter(Obj(<<[k |-> "field", v |-> Str("value")]>>),
           Undefined, Undefined, Undefined, Undefined, Undefined) }

\* getExport alone, with longer bodies
NextExport ==
  \/ \E f \in ExportFilters : getExport(f, NoHeaders)
  \/ \E chunk \in Chunks : StreamData(chunk, MaxBody)
  \/ StreamEnd
  \/ \E error \in StreamErrors : StreamError(error)
  \/ Return

SpecExport == Init /\ [][NextExport]_vars

\* the longest body of a call whose stream is bound to finish
MaxBodyFair == 3

\* the chunks and the errors of such a stream
FairChunks == { <<"1">>, <<"{">>, <<"\n">> }
FairErrors ==
  { JsError("RequestError", "connect ECONNREFUSED", NoResponse),
    JsError("RequestError", "Response code 400 (Bad Request)",
            Response(400, Str("Bad Request"))) }

\* the stream of a call finishes: it does not stay open for ever but
\* emits 'end' or 'error'
StreamFinishes == StreamEnd \/ \E error \in FairErrors : StreamError(error)

NextExportFair ==
  \/ getExport(Undefined, NoHeaders)
  \/ \E chunk \in FairChunks : StreamData(chunk, MaxBodyFair)
  \/ StreamFinishes
  \/ Return

\* a promise whose last resolve or reject call decides
PromiseSettleAgain(current, new) == new

\* resolve and reject of a promise: the first call settles it, and a call
\* on a settled promise does nothing
PromiseSettle(current, new) == IF current = Pending THEN new ELSE current

\* 'data' after 'error': the handler still appends to the text
LateData(chunk, maxLen) ==
  /\ pc = "settled"
  /\ stream = "errored"
  /\ Len(data) + Len(chunk) <= maxLen
  /\ data' = data \o ChunkToString(chunk)
  /\ UNCHANGED <<pc, op, filter, headers, requests, stream, caught, outcome, logs,
                 calls, client>>

\* 'end' after 'error': the handler parses the text and calls resolve, or
\* logs and calls reject, on the promise the error has already settled
LateEnd ==
  /\ pc = "settled"
  /\ stream = "errored"
  /\ stream' = "errored, ended"
  /\ LET parsed == ParseNdjson(data) IN
     IF parsed.ok
     THEN /\ outcome' = PromiseSettle(outcome, Resolved(Arr(parsed.items)))
          /\ UNCHANGED logs
     ELSE /\ outcome' = PromiseSettle(outcome, Rejected(GetHttpErrors(parsed.error)))
          /\ logs' = Append(logs, "fails to parse the NDJSON data")
  /\ UNCHANGED <<pc, op, filter, headers, requests, data, caught, calls, client>>

\* 'error' after 'end': the handler calls reject on the promise the end
\* of the stream has already settled
LateError(error) ==
  /\ pc = "settled"
  /\ stream = "ended"
  /\ stream' = "ended, errored"
  /\ outcome' = PromiseSettle(outcome, Rejected(GetHttpErrors(error)))
  /\ UNCHANGED <<pc, op, filter, headers, requests, data, caught, logs, calls, client>>

\* getExport on streams that go on emitting events after they finished
NextLate ==
  \/ getExport(Undefined, NoHeaders)
  \/ \E chunk \in FairChunks : StreamData(chunk, MaxBodyFair)
  \/ StreamEnd
  \/ \E error \in FairErrors : StreamError(error)
  \/ \E chunk \in FairChunks : LateData(chunk, MaxBodyFair)
  \/ LateEnd
  \/ \E error \in FairErrors : LateError(error)
  \/ Return

SpecLate == Init /\ [][NextLate]_vars

\* getExport on streams that eventually finish
SpecExportFair == Init /\ [][NextExportFair]_vars /\ WF_vars(StreamFinishes)

\* the values of the fields the operations of Spec leave undefined
Skips == { Undefined, Num(0), Num(5) }
Sorts == { Undefined, Str(""), Str("name") }
RawProjections ==
  { Undefined, Obj(<<>>), Obj(<<[k |-> "field", v |-> Num(1)]>>) }
QueryProjections == Projections \cup { Arr(<<"a", "b">>) }

\* mongo queries with several and nested properties, and with the values
\* Record<string, unknown> admits besides JSON values
QueryMongoQueries ==
  MongoQueries \cup
    { Obj(<<[k |-> "a", v |-> Num(10)],
            [k |-> "b", v |-> Obj(<<[k |-> "c", v |-> Null]>>)]>>),
      Obj(<<[k |-> "field", v |-> Undefined]>>),
      Obj(<<[k |-> "createdAt", v |-> Date("2020-01-01T00:00:00.000Z")]>>) }

\* every Filter queryFromFilter is applied to
QueryFilters ==
  { Filter(q, l, sk, s, p, rawp) :
      q \in QueryMongoQueries, l \in Limits, sk \in Skips, s \in Sorts,
      p \in QueryProjections, rawp \in RawProjections }

\* queryFromFilter on every filter: getList hands its result to the
\* request as searchParams
NextQuery ==
  \/ \E f \in QueryFilters \cup {Undefined} : getList(f, NoHeaders)
  \/ \E body \in SuccessBodies : Respond(body)
  \/ Return

SpecQuery == Init /\ [][NextQuery]_vars

\* the filter delete is called with on the clients
DeleteFilter ==
  Filter(Obj(<<[k |-> "field", v |-> Str("value")]>>),
         Undefined, Undefined, Undefined, Undefined, Undefined)

\* every operation, on each of the clients
NextClients ==
  \/ \E h \in HeadersToProxy : getList(Undefined, h)
  \/ \E h \in HeadersToProxy : getExport(Undefined, h)
  \/ \E h \in HeadersToProxy : count(Undefined, h)
  \/ \E h \in HeadersToProxy : getById(Undefined, h)
  \/ \E h \in HeadersToProxy : create(h)
  \/ \E h \in HeadersToProxy : bulkInsert(h)
  \/ \E h \in HeadersToProxy : upsertOne(Undefined, h)
  \/ \E h \in HeadersToProxy : updateById(Undefined, h)
  \/ \E h \in HeadersToProxy : updateMany(Undefined, h)
  \/ \E h \in HeadersToProxy : updateBulk(h)
  \/ \E h \in HeadersToProxy : trash(h)
  \/ \E h \in HeadersToProxy : deleteOne(h)
  \/ \E h \in HeadersToProxy : delete(DeleteFilter, h)
  \/ \E body \in SuccessBodies : Respond(body)
  \/ StreamEnd
  \/ Return

SpecClients == InitClients /\ [][NextClients]_vars

\* the filters the operations on the collection root are called with
RootFilters ==
  { Filter(q, l, Undefined, Undefined, Undefined, Undefined) :
      q \in QueryMongoQueries, l \in Limits }

\* the operations that delete or change many items, with every mongoQuery
NextRoot ==
  \/ \E f \in RootFilters : delete(f, NoHeaders)
  \/ \E f \in RootFilters \cup {Undefined} : updateMany(f, NoHeaders)
  \/ deleteOne(NoHeaders)
  \/ \E body \in SuccessBodies : Respond(body)
  \/ \E error \in RequestErrors : Fail(error)
  \/ Return

SpecRoot == Init /\ [][NextRoot]_vars

----------------------------------------------------------------------------
(* Two calls of getExport at once *)

\* the longest text a stream emits to one of the concurrent calls
MaxBodyEach == 3

\* the chunks and the errors of the streams of the concurrent calls
ConcurrentChunks == { <<"1">>, <<"{">>, <<"\n">> }
ConcurrentErrors ==
  { JsError("RequestError", "connect ECONNREFUSED", NoResponse),
    JsError("RequestError", "Response code 400 (Bad Request)",
            Response(400, Str("Bad Request"))) }

\* the catch clause of getExport, on the error the promise rejected with
ExportRejected(error) == Rejected(GetHttpErrors(error))

\* what the 'end' handler settles the promise with for an accumulated text
ExportEnded(text) ==
  LET parsed == ParseNdjson(text) IN
  IF parsed.ok THEN Resolved(Arr(parsed.items)) ELSE ExportRejected(parsed.error)

\* a call of getExport starts: its own stream, and in the closure of its
\* promise its own empty text
ExportCalled(c) ==
  /\ calls[c].pc = "idle"
  /\ calls' = [calls EXCEPT ![c] = ExportCall("streaming", <<>>, Unfinished, <<>>, Pending)]
  /\ UNCHANGED <<pc, op, filter, headers, requests, stream, data, caught, outcome, logs,
                 client>>

\* one text for all the calls of the client: the chunk of a stream is
\* appended for every call that is accumulating
ExportDataShared(c, chunk, maxLen) ==
  /\ calls[c].pc = "streaming"
  /\ Len(calls[c].emitted) + Len(chunk) <= maxLen
  /\ calls' = [d \in CallIds |->
                IF d = c
                THEN [calls[d] EXCEPT !.emitted = @ \o chunk,
                                      !.data = @ \o ChunkToString(chunk),
                                      !.received = @ + 1]
                ELSE IF calls[d].pc = "streaming"
                THEN [calls[d] EXCEPT !.data = @ \o ChunkToString(chunk)]
                ELSE calls[d]]
  /\ UNCHANGED <<pc, op, filter, headers, requests, stream, data, caught, outcome, logs,
                 client>>

\* 'data' on the stream of call c: the handler registered by that call
\* appends the chunk to the text of its own closure
ExportData(c, chunk, maxLen) ==
  /\ calls[c].pc = "streaming"
  /\ Len(calls[c].emitted) + Len(chunk) <= maxLen
  /\ calls' = [calls EXCEPT ![c].emitted = @ \o chunk,
                            ![c].data = @ \o ChunkToString(chunk),
                            ![c].received = @ + 1]
  /\ UNCHANGED <<pc, op, filter, headers, requests, stream, data, caught, outcome, logs,
                 client>>

\* 'end' on the stream of call c
ExportEnd(c) ==
  /\ calls[c].pc = "streaming"
  /\ calls' = [calls EXCEPT ![c].pc = "settled", ![c].finished = Ended,
                            ![c].outcome = ExportEnded(calls[c].data)]
  /\ UNCHANGED <<pc, op, filter, headers, requests, stream, data, caught, outcome, logs,
                 client>>

\* 'error' on the stream of call c
ExportError(c, error) ==
  /\ calls[c].pc = "streaming"
  /\ calls' = [calls EXCEPT ![c].pc = "settled", ![c].finished = Errored(error),
                            ![c].outcome = ExportRejected(error)]
  /\ UNCHANGED <<pc, op, filter, headers, requests, stream, data, caught, outcome, logs,
                 client>>

\* the caller of call c has taken its outcome
ExportReturn(c) ==
  /\ calls[c].pc = "settled"
  /\ calls' = [calls EXCEPT ![c] = NoCall]
  /\ UNCHANGED <<pc, op, filter, headers, requests, stream, data, caught, outcome, logs,
                 client>>

\* the events of the two calls interleave in any order
NextConcurrent ==
  \/ \E c \in CallIds : ExportCalled(c)
  \/ \E c \in CallIds, chunk \in ConcurrentChunks : ExportData(c, chunk, MaxBodyEach)
  \/ \E c \in CallIds : ExportEnd(c)
  \/ \E c \in CallIds, error \in ConcurrentErrors : ExportError(c, error)
  \/ \E c \in CallIds : ExportReturn(c)

SpecConcurrent == Init /\ [][NextConcurrent]_vars

RECURSIVE Texts(_, _)
\* the sequences of at most n elements of a set
Texts(S, n) ==
  IF n = 0 THEN { <<>> }
  ELSE LET shorter == Texts(S, n - 1) IN
       shorter \cup { Append(t, c) : t \in shorter, c \in S }

\* the longest body, in bytes, of the call whose body arrives in chunks
MaxBodyBytes == 4

\* the chunks a body can come in: every sequence of bytes that is not
\* empty, so that a body arrives whole or split at any of its positions
BodyChunks ==
  Texts({"1", "\"", "\n", LeadByte, ContinuationByte}, MaxBodyBytes) \ { <<>> }

\* one call of getExport whose body arrives in every possible way
NextChunks ==
  \/ ExportCalled(1)
  \/ \E chunk \in BodyChunks : ExportData(1, chunk, MaxBodyBytes)
  \/ ExportEnd(1)
  \/ \E error \in ConcurrentErrors : ExportError(1, error)
  \/ ExportReturn(1)

SpecChunks == Init /\ [][NextChunks]_vars

----------------------------------------------------------------------------
(* NDJSON, stated on the positions of the text: what the claims about      *)
(* getExport are measured against                                          *)

\* the positions where a line of the text starts: the first one, and the
\* one after every newline
LineStarts(text) == {1} \cup { i + 1 : i \in { j \in 1..Len(text) : text[j] = "\n" } }

\* the line that starts at position start, up to the next newline or the
\* end of the text
LineAt(text, start) ==
  LET stop == CHOOSE j \in start..(Len(text) + 1) :
                /\ j = Len(text) + 1 \/ text[j] = "\n"
                /\ \A k \in start..(j - 1) : text[k] # "\n"
  IN SubSeq(text, start, stop - 1)

\* the lines of the text, in order
TextLines(text) ==
  LET starts == LineStarts(text)
      nth(n) == CHOOSE s \in starts : Cardinality({ t \in starts : t < s }) = n - 1
  IN [n \in 1..Cardinality(starts) |-> LineAt(text, nth(n))]

\* a line that is empty or holds white space only
IsBlank(line) == \A i \in 1..Len(line) : line[i] \in {" ", "\n"}

\* the lines that are not blank, in order
RecordLines(text) == SelectSeq(TextLines(text), LAMBDA line : ~IsBlank(line))

\* the line is a JSON text: digits, or an object with nothing in it,
\* with white space around and inside the braces only
IsJsonText(line) ==
  \E a \in 1..Len(line), b \in 1..Len(line) :
    /\ a <= b
    /\ \A i \in 1..Len(line) : (i < a \/ i > b) => line[i] = " "
    /\ \/ \A i \in a..b : line[i] = "1"
       \/ /\ a < b
          /\ line[a] = "{"
          /\ line[b] = "}"
          /\ \A i \in (a + 1)..(b - 1) : line[i] = " "

\* the value a JSON text denotes
JsonValueOf(line) ==
  LET ones == Cardinality({ i \in 1..Len(line) : line[i] = "1" }) IN
  IF ones > 0 THEN Num((10 ^ ones - 1) \div 9) ELSE Obj(<<>>)

\* the records of a text all of whose non-blank lines are JSON texts
RecordsOf(text) ==
  LET lines == RecordLines(text) IN
  [i \in 1..Len(lines) |-> JsonValueOf(lines[i])]

AllRecordsValid(text) ==
  \A i \in 1..Len(RecordLines(text)) : IsJsonText(RecordLines(text)[i])

\* the text after the last newline of a text
LastLine(text) == TextLines(text)[Len(TextLines(text))]

----------------------------------------------------------------------------
(* Claims *)

\* C1: delete called with a filter whose mongoQuery is absent or is the
\* empty object rejects with the 400 error 'Mongo query is required',
\* whatever the other fields of the filter are, and issues no request.
C1_DeleteRequiresMongoQuery ==
  (op = "delete" /\ filter.mongoQuery \in {Undefined, Obj(<<>>)})
    => /\ pc = "settled"
       /\ outcome = Rejected(HttpError(400, "Mongo query is required"))
       /\ requests = <<>>

C1_Witness ==
  /\ op = "delete"
  /\ filter.mongoQuery = Obj(<<>>)
  /\ filter.limit = Num(200)
  /\ filter.projection = Arr(<<"field">>)
  /\ outcome.kind = "rejected"

\* C2: getExport is all or nothing: when a non-blank line of the text
\* received up to 'end' is not a JSON text, the call rejects, so the caller
\* gets no record, not even those of the lines before it.
C2_ExportAllOrNothing ==
  (stream = "ended" /\ ~AllRecordsValid(data)) => outcome.kind = "rejected"

C2_Witness ==
  /\ stream = "ended"
  /\ Len(RecordLines(data)) >= 2
  /\ IsJsonText(RecordLines(data)[1])
  /\ ~IsJsonText(RecordLines(data)[2])
  /\ outcome.kind = "rejected"

\* C3: when every non-blank line is a JSON text, getExport returns the
\* values of the non-blank lines, in the order of the lines: blank lines
\* give no record and no failure, and nothing is dropped, repeated or
\* moved; a text with blank lines only gives the empty array.
C3_ExportReturnsRecordsInOrder ==
  (stream = "ended" /\ AllRecordsValid(data))
    => outcome = Resolved(Arr(RecordsOf(data)))

C3_Witness ==
  /\ stream = "ended"
  /\ outcome.kind = "resolved"
  /\ Len(outcome.value.items) = 2
  /\ \E n \in 2..(Len(TextLines(data)) - 1) : IsBlank(TextLines(data)[n])

\* C4: a last line without a newline after it is a record like any other:
\* when it is a JSON text it is the last element of the result, and when
\* it is not the call fails.
C4_UnterminatedLastLineIsRecord ==
  (/\ stream = "ended"
   /\ Len(data) > 0
   /\ data[Len(data)] # "\n"
   /\ ~IsBlank(LastLine(data)))
    => IF IsJsonText(LastLine(data))
       THEN /\ outcome.kind = "resolved" <=> AllRecordsValid(data)
            /\ outcome.kind = "resolved" =>
                 /\ Len(outcome.value.items) = Len(RecordLines(data))
                 /\ outcome.value.items[Len(outcome.value.items)]
                      = JsonValueOf(LastLine(data))
       ELSE outcome.kind = "rejected"

C4_Witness ==
  /\ stream = "ended"
  /\ Len(data) > 0
  /\ data[Len(data)] = "}"
  /\ outcome.kind = "resolved"
  /\ Len(outcome.value.items) = 2
  /\ outcome.value.items[2] = Obj(<<>>)

\* C5: when the stream emits 'error' before 'end', getExport rejects,
\* after any number of chunks and whatever text they brought: the records
\* received so far are never returned.
C5_StreamErrorRejects ==
  stream = "errored" => outcome.kind = "rejected"

C5_Witness ==
  /\ stream = "errored"
  /\ Len(data) > 0
  /\ data[Len(data)] = "\n"
  /\ Len(RecordLines(data)) >= 1
  /\ AllRecordsValid(data)
  /\ outcome.kind = "rejected"

\* C6, as claimed: when the export stream raises an error, the caller
\* of getExport receives that same error, not wrapped and not replaced.
C6_SameTransportError ==
  stream = "errored" => outcome = Rejected(caught)

\* C6, amended: the caller receives the error getHttpErrors builds from
\* the stream's error: a classified error with the status code of the
\* error's response (500 without a response) and the error's own message
\* text (the fixed text when it has none), and not a parse failure.
C6_TransportErrorClassified ==
  stream = "errored" =>
    /\ outcome.kind = "rejected"
    /\ outcome.error.name = "HttpError"
    /\ outcome.error.statusCode =
         (IF caught.response.present THEN caught.response.statusCode ELSE 500)
    /\ outcome.error.message =
         (IF caught.message # "" THEN caught.message ELSE "Something went wrong")
    /\ logs = <<"fails to get full export of data">>

C6_Witness ==
  /\ stream = "errored"
  /\ Len(data) > 0
  /\ caught.response.present
  /\ caught.response.statusCode = 400
  /\ outcome.error.statusCode = 400
  /\ outcome.error.message = "Response code 400 (Bad Request)"

\* the failure the transport raised for the call that has settled
FailedWith(error) ==
  /\ pc = "settled"
  /\ outcome.kind = "rejected"
  /\ caught = error

\* the message field of the body of the error's response
BodyMessage(error) ==
  IF error.response.present /\ error.response.body.t = "object"
  THEN Get(error.response.body, "message")
  ELSE Undefined

\* C7: the status code of the error getHttpErrors produces is the status
\* code of the failed response when the failure carries a response, and
\* 500 when it carries none.
C7_StatusCodeFromResponse ==
  \A e \in RequestErrors :
    (FailedWith(e) /\ outcome.error.name = "HttpError") =>
      outcome.error.statusCode =
        (IF e.response.present THEN e.response.statusCode ELSE 500)

C7_Witness ==
  /\ pc = "settled"
  /\ op = "getById"
  /\ caught.name = "RequestError"
  /\ caught.response.present
  /\ caught.response.statusCode = 503
  /\ outcome.error.name = "HttpError"
  /\ outcome.error.statusCode = 503

\* C8, as claimed: the message of the error getHttpErrors produces is the
\* message field of the response body when the body has one, otherwise
\* the failure's own message text, otherwise 'Something went wrong'.
C8_BodyMessageWhenPresent ==
  \A e \in RequestErrors :
    (FailedWith(e) /\ outcome.error.name = "HttpError") =>
      outcome.error.message =
        (IF BodyMessage(e) # Undefined THEN BodyMessage(e).s
         ELSE IF e.message # "" THEN e.message
         ELSE "Something went wrong")

\* C8, amended: the message is the message field of the response body when
\* that field is a non-empty string; when the body has no message field or
\* an empty one, the failure's own message text when that is not empty;
\* otherwise 'Something went wrong'.
C8_MessagePriority ==
  \A e \in RequestErrors :
    (FailedWith(e) /\ BodyMessage(e).t \in {"undefined", "string"}) =>
      /\ outcome.error.name = "HttpError"
      /\ outcome.error.message =
           (IF BodyMessage(e) \notin {Undefined, Str("")} THEN BodyMessage(e).s
            ELSE IF e.message # "" THEN e.message
            ELSE "Something went wrong")

C8_Witness ==
  /\ pc = "settled"
  /\ caught.name = "RequestError"
  /\ BodyMessage(caught) = Str("")
  /\ caught.message = "Response code 400 (Bad Request)"
  /\ outcome.error.message = "Response code 400 (Bad Request)"

\* C9: every rejection an operation surfaces for a backend failure, a
\* transport failure or an export decode failure is a classified error,
\* with a numeric status code and a message; no raw error reaches the
\* caller.
C9_EveryRejectionClassified ==
  (/\ pc = "settled"
   /\ outcome.kind = "rejected"
   /\ caught.name \in {"RequestError", "SyntaxError"})
    => outcome.error.name = "HttpError"

\* the errors getExport surfaces when the backend answers with a status
\* that is not a success
BackendFailureErrors ==
  { GetHttpErrors(e) :
      e \in { x \in StreamErrors :
                x.response.present /\ x.response.statusCode >= 400 } }

\* C10: the error surfaced for an export body that is not valid NDJSON
\* differs, by status code and kind, from every error surfaced for a
\* backend failure.
C10_DecodeFailureDistinct ==
  (stream = "ended" /\ outcome.kind = "rejected") =>
    \A b \in BackendFailureErrors :
      ~(/\ b.name = outcome.error.name
        /\ b.statusCode = outcome.error.statusCode)

----------------------------------------------------------------------------
(* The query of a request *)

\* the query the issued request carries
Query == requests[1].searchParams

\* the fields of a Filter and the key each is written under
FilterFields ==
  { "mongoQuery", "limit", "skip", "sort", "projection", "rawProjection" }

KeyOf(field) ==
  CASE field = "mongoQuery" -> "_q"
    [] field = "limit" -> "_l"
    [] field = "skip" -> "_sk"
    [] field = "sort" -> "_s"
    [] field = "projection" -> "_p"
    [] field = "rawProjection" -> "_rawp"

\* a field is populated when the Filter gives it a value
Populated(f, field) == f[field] # Undefined

\* C11: queryFromFilter gives undefined for an absent filter, so that the
\* request carries no query string, and an empty query with no key-value
\* pair for a filter that is present with no field populated
C11_NoFieldNoQuery ==
  Len(requests) = 1 =>
    /\ filter = Undefined => Query = Undefined
    /\ (filter # Undefined /\ \A field \in FilterFields : ~Populated(filter, field))
         => (Query # Undefined /\ Query.pairs = <<>>)

\* getList was called with a filter that is present and has no field
\* populated, and its request was issued
C11_Witness ==
  /\ Len(requests) = 1
  /\ filter # Undefined
  /\ \A field \in FilterFields : ~Populated(filter, field)
  /\ Query.pairs = <<>>

\* the entries of a query written under a key
EntriesWithKey(q, key) == { i \in 1..Len(q.pairs) : q.pairs[i].k = key }

\* the text a populated field of a Filter is written as
FieldText(f, field) ==
  CASE field \in {"limit", "skip"} -> ToString(f[field].n)
    [] field = "sort" -> f.sort.s
    [] field = "projection" -> Join(f.projection.items, ",")
    [] OTHER -> JSONStringify(f[field])

\* C12: each populated field of the Filter is written exactly once, under
\* its own key and with its own value; a field the Filter does not hold
\* has no entry, and the query holds no other entry
C12_EachFieldOnceUnderItsKey ==
  (Len(requests) = 1 /\ filter # Undefined) =>
    /\ \A field \in FilterFields :
         Cardinality(EntriesWithKey(Query, KeyOf(field)))
           = IF Populated(filter, field) THEN 1 ELSE 0
    /\ \A i \in 1..Len(Query.pairs) :
         \E field \in FilterFields :
           /\ Query.pairs[i].k = KeyOf(field)
           /\ Populated(filter, field)
           /\ Query.pairs[i].v = FieldText(filter, field)

\* a request was issued for a filter with different values in all of its
\* six fields, and its query holds six entries
C12_Witness ==
  /\ Len(requests) = 1
  /\ filter # Undefined
  /\ \A field \in FilterFields : Populated(filter, field)
  /\ filter.limit # filter.skip
  /\ Len(filter.projection.items) = 2
  /\ Len(Query.pairs) = 6

\* the character of a text at a position ("" past its ends)
Char(s, i) == IF i \in 1..Len(s) THEN SubSeq(s, i, i) ELSE ""

DecimalDigits == {"0", "1", "2", "3", "4", "5", "6", "7", "8", "9"}

DigitValue(c) ==
  CASE c = "0" -> 0 [] c = "1" -> 1 [] c = "2" -> 2 [] c = "3" -> 3
    [] c = "4" -> 4 [] c = "5" -> 5 [] c = "6" -> 6 [] c = "7" -> 7
    [] c = "8" -> 8 [] c = "9" -> 9

\* the first position from i on that does not hold a character of S
PastAll(s, i, S) ==
  CHOOSE j \in i..(Len(s) + 1) :
    /\ \A k \in i..(j - 1) : Char(s, k) \in S
    /\ Char(s, j) \notin S

\* the first position from i on that holds character c (Len(s) + 1 when
\* there is none)
NextChar(s, i, c) ==
  CHOOSE j \in i..(Len(s) + 1) :
    /\ \A k \in i..(j - 1) : Char(s, k) # c
    /\ j = Len(s) + 1 \/ Char(s, j) = c

RECURSIVE NumberOf(_)
\* the number a text of decimal digits denotes
NumberOf(ds) ==
  IF Len(ds) = 0 THEN 0
  ELSE 10 * NumberOf(SubSeq(ds, 1, Len(ds) - 1)) + DigitValue(Char(ds, Len(ds)))

NotJson == [ok |-> FALSE]

RECURSIVE DecodeValue(_, _)
RECURSIVE DecodeMembers(_, _, _)
\* the JSON value that starts at position i of a compact JSON text, and
\* the position after it
DecodeValue(s, i) ==
  LET c == Char(s, i) IN
  IF c = "{"
  THEN IF Char(s, i + 1) = "}"
       THEN [ok |-> TRUE, value |-> Obj(<<>>), next |-> i + 2]
       ELSE DecodeMembers(s, i + 1, <<>>)
  ELSE IF c = "\""
  THEN LET close == NextChar(s, i + 1, "\"") IN
       IF close > Len(s) THEN NotJson
       ELSE [ok |-> TRUE, value |-> Str(SubSeq(s, i + 1, close - 1)),
             next |-> close + 1]
  ELSE IF c \in DecimalDigits
  THEN LET end == PastAll(s, i, DecimalDigits) IN
       [ok |-> TRUE, value |-> Num(NumberOf(SubSeq(s, i, end - 1))), next |-> end]
  ELSE IF i + 3 <= Len(s) /\ SubSeq(s, i, i + 3) = "null"
  THEN [ok |-> TRUE, value |-> Null, next |-> i + 4]
  ELSE NotJson

\* the members of an object from position i on, up to its closing brace
DecodeMembers(s, i, members) ==
  IF Char(s, i) # "\"" THEN NotJson
  ELSE LET close == NextChar(s, i + 1, "\"") IN
       IF Char(s, close + 1) # ":" THEN NotJson
       ELSE LET member == DecodeValue(s, close + 2) IN
            IF ~member.ok THEN NotJson
            ELSE LET all == Append(members, [k |-> SubSeq(s, i + 1, close - 1),
                                             v |-> member.value])
                 IN IF Char(s, member.next) = ","
                    THEN DecodeMembers(s, member.next + 1, all)
                    ELSE IF Char(s, member.next) = "}"
                    THEN [ok |-> TRUE, value |-> Obj(all), next |-> member.next + 1]
                    ELSE NotJson

\* a text decoded as one JSON value: the whole text must be that value
JsonDecode(s) ==
  LET r == DecodeValue(s, 1) IN
  IF r.ok /\ r.next = Len(s) + 1 THEN [ok |-> TRUE, value |-> r.value]
  ELSE NotJson

\* the text written under a key of the query
TextUnder(key) ==
  Query.pairs[CHOOSE i \in 1..Len(Query.pairs) : Query.pairs[i].k = key].v

\* the value of a field is written as one JSON text under the field's key,
\* the text decodes to the value itself, and the query has no entry under
\* a key made of the field's structure
RoundTrip(field) ==
  /\ Cardinality(EntriesWithKey(Query, KeyOf(field))) = 1
  /\ \A i \in 1..Len(Query.pairs) :
       Query.pairs[i].k \in { KeyOf(other) : other \in FilterFields }
  /\ JsonDecode(TextUnder(KeyOf(field))).ok
  /\ JsonDecode(TextUnder(KeyOf(field))).value = filter[field]

RECURSIVE IsJsonValue(_)
\* the values JSON has a text for: strings, numbers, null, and objects of
\* such values
IsJsonValue(v) ==
  CASE v.t \in {"string", "number", "null"} -> TRUE
    [] v.t = "object" -> \A i \in 1..Len(v.pairs) : IsJsonValue(v.pairs[i].v)
    [] OTHER -> FALSE

\* C13: for every Filter with a mongoQuery or a rawProjection, the value
\* written under _q (_rawp) is a single JSON text that decodes to a value
\* deep-equal to the original one, never flattened into nested parameters
C13_QueryRoundTrip ==
  (Len(requests) = 1 /\ filter # Undefined) =>
    \A field \in {"mongoQuery", "rawProjection"} :
      Populated(filter, field) => RoundTrip(field)

\* C13, for the values JSON has a text for: a mongoQuery or rawProjection
\* made of strings, numbers, null and objects of these is written as a
\* single JSON text that decodes to the original value; any other
\* mongoQuery is still written as a single JSON text under _q
C13_JsonRoundTrip ==
  (Len(requests) = 1 /\ filter # Undefined) =>
    \A field \in {"mongoQuery", "rawProjection"} :
      Populated(filter, field) =>
        /\ Cardinality(EntriesWithKey(Query, KeyOf(field))) = 1
        /\ JsonDecode(TextUnder(KeyOf(field))).ok
        /\ IsJsonValue(filter[field]) => RoundTrip(field)

\* a request was issued for a filter with a nested mongoQuery and a
\* rawProjection, and both texts decode to the original values
C13_Witness ==
  /\ Len(requests) = 1
  /\ filter # Undefined
  /\ Populated(filter, "mongoQuery")
  /\ Populated(filter, "rawProjection")
  /\ Len(filter.mongoQuery.pairs) = 2
  /\ Len(filter.rawProjection.pairs) = 1
  /\ RoundTrip("mongoQuery")
  /\ RoundTrip("rawProjection")

----------------------------------------------------------------------------
(* Requests, results and logs of a call *)

\* the call was rejected by the validation delete makes before its request
LocallyRejected == op = "delete" /\ isEmpty(filter.mongoQuery)

AloneOutcome(emitted, finished) ==
  IF finished.event = "end"
  THEN LET parsed == ParseNdjson(emitted) IN
       IF parsed.ok THEN Resolved(Arr(parsed.items))
       ELSE Rejected(GetHttpErrors(parsed.error))
  ELSE Rejected(GetHttpErrors(finished.error))

\* C15: two getExport calls whose stream events interleave share no
\* state: the text a call accumulates is the text its own stream emitted,
\* and its outcome is the one it has alone on that stream
C15_ConcurrentExportsIndependent ==
  \A c \in CallIds :
    /\ calls[c].pc # "idle" => calls[c].data = calls[c].emitted
    /\ calls[c].pc = "settled"
         => calls[c].outcome = AloneOutcome(calls[c].emitted, calls[c].finished)

\* both calls were streaming at once on streams that emitted different
\* texts; the first has resolved with its records, the second is still
\* accumulating
C15_Witness ==
  /\ calls[1].pc = "settled"
  /\ calls[1].outcome.kind = "resolved"
  /\ Len(calls[1].outcome.value.items) = 2
  /\ calls[2].pc = "streaming"
  /\ Len(calls[2].data) = 2
  /\ calls[2].data # SubSeq(calls[1].data, 1, 2)

\* C16: for every operation but getExport, an exchange that completes with
\* a success status makes the call return the body of the response as it
\* is, null included, and never an error
C16_SuccessReturnsBody ==
  [][\A body \in SuccessBodies : Respond(body) => outcome' = Resolved(body)]_vars

\* C17: the logger never gates control flow: the outcome of a call is the
\* one its exchange determines, the returned value of a successful
\* exchange and the classified error of a failed one, whatever happens
\* while a log event and its fields are made
C17_LoggerNeverGates ==
  [][/\ \A body \in SuccessBodies :
          Respond(body) => outcome' = Resolved(Returned(op, body))
     /\ \A error \in RequestErrors :
          Fail(error) => outcome' = Rejected(GetHttpErrors(error))]_vars

\* C18: every failure path emits exactly one error log event before the
\* error reaches the caller, never none and never two
C18_OneErrorLogPerFailure ==
  (pc = "settled" /\ outcome.kind = "rejected") => Len(logs) = 1

----------------------------------------------------------------------------
(* Headers of the requests *)

\* the value of a header of the issued request ("" when it is not sent)
Sent(name) ==
  IF name \in DOMAIN requests[1].headers THEN requests[1].headers[name] ELSE ""

\* C19: every request issued by getExport carries the header
\* content-type: application/x-ndjson, whatever headersToProxy holds
C19_ExportAlwaysNdjson ==
  (op = "getExport" /\ Len(requests) = 1)
    => Sent("content-type") = "application/x-ndjson"

\* C19, with the caller's precedence: the request of getExport carries
\* content-type: application/x-ndjson when headersToProxy holds no
\* content-type, and the content-type of headersToProxy when it holds one
C19_ExportNdjsonByDefault ==
  (op = "getExport" /\ Len(requests) = 1)
    => Sent("content-type") = IF "content-type" \in DOMAIN headers
                              THEN headers["content-type"]
                              ELSE "application/x-ndjson"

\* getExport was called with headers that hold no content-type, and its
\* request carries application/x-ndjson next to the caller's header
C19_Witness ==
  /\ op = "getExport"
  /\ Len(requests) = 1
  /\ "foo" \in DOMAIN headers
  /\ Sent("foo") = "bar"
  /\ Sent("content-type") = "application/x-ndjson"

\* every header of headersToProxy is on the issued request with its value,
\* and the request carries no other header than a content type
Forwarded ==
  /\ \A name \in DOMAIN headers : Sent(name) = headers[name]
  /\ DOMAIN requests[1].headers \subseteq DOMAIN headers \cup {"content-type"}

\* C20: for every operation the headers of headersToProxy are on the
\* request unchanged, and content-type: application/json is sent when the
\* caller supplied no content-type, never in place of a caller's header
\* (getExport, whose own content type is application/x-ndjson, aside)
C20_JsonDefaultEverywhere ==
  Len(requests) = 1 =>
    /\ Forwarded
    /\ ("content-type" \notin DOMAIN headers /\ op # "getExport")
         => Sent("content-type") = "application/json"

\* the content type an operation sends when the caller supplies none:
\* none at all for the two operations that send DELETE without a body
DefaultContentType(o) ==
  CASE o = "getExport" -> "application/x-ndjson"
    [] o \in {"deleteOne", "delete"} -> ""
    [] OTHER -> "application/json"

\* C20, operation by operation: the headers of headersToProxy are on the
\* request unchanged; when the caller supplied no content-type the request
\* carries the operation's default, application/json for every operation
\* but getExport (application/x-ndjson) and deleteOne and delete (none)
C20_HeadersForwarded ==
  Len(requests) = 1 =>
    /\ Forwarded
    /\ "content-type" \notin DOMAIN headers
         => Sent("content-type") = DefaultContentType(op)

\* create was called with a content-type of the caller's, and its request
\* carries that value and not application/json
C20_Witness ==
  /\ op = "create"
  /\ Len(requests) = 1
  /\ "content-type" \in DOMAIN headers
  /\ requests[1].json # Undefined
  /\ Sent("content-type") = headers["content-type"]
  /\ Sent("content-type") # "application/json"

----------------------------------------------------------------------------
(* The wire contract *)

Operations ==
  { "getList", "getExport", "count", "getById", "create", "bulkInsert",
    "upsertOne", "updateById", "updateMany", "updateBulk", "trash",
    "deleteOne", "delete" }

\* the method and the path of each operation in the wire contract
Wire(o) ==
  CASE o = "getList" -> [method |-> "GET", path |-> ""]
    [] o = "getExport" -> [method |-> "GET", path |-> "export"]
    [] o = "count" -> [method |-> "GET", path |-> "count"]
    [] o = "getById" -> [method |-> "GET", path |-> "my-id"]
    [] o = "create" -> [method |-> "POST", path |-> ""]
    [] o = "bulkInsert" -> [method |-> "POST", path |-> "bulk"]
    [] o = "upsertOne" -> [method |-> "POST", path |-> "upsert-one"]
    [] o = "updateById" -> [method |-> "PATCH", path |-> "my-id"]
    [] o = "updateMany" -> [method |-> "PATCH", path |-> ""]
    [] o = "updateBulk" -> [method |-> "PATCH", path |-> "bulk"]
    [] o = "trash" -> [method |-> "POST", path |-> "my-id/state"]
    [] o = "deleteOne" -> [method |-> "DELETE", path |-> "my-id"]
    [] o = "delete" -> [method |-> "DELETE", path |-> ""]

\* the method and the path of the issued request
Issued == [method |-> requests[1].method, path |-> requests[1].path]

\* C21: each operation issues the method and the path the wire contract
\* fixes for it, trash with the body {stateTo: 'TRASH'}, and never the
\* method and path of another operation
C21_WireContract ==
  Len(requests) = 1 =>
    /\ Issued = Wire(op)
    /\ \A other \in Operations \ {op} : Issued # Wire(other)
    /\ op = "trash"
         => requests[1].json = Obj(<<[k |-> "stateTo", v |-> Str("TRASH")]>>)

\* trash was called and its request, a POST to the state of the item, was
\* issued
C21_Witness ==
  /\ op = "trash"
  /\ Len(requests) = 1
  /\ requests[1].method = "POST"
  /\ requests[1].path = "my-id/state"
  /\ requests[1].json # Undefined

\* C22: the resource a client is bound to is the path prefix of every
\* request it issues, so that a client of the same prefix URL and another
\* resource addresses another URL for the same operation
C22_ResourceIsPathPrefix ==
  Len(requests) = 1 =>
    /\ requests[1].url = UrlWithResource(client, requests[1].path)
    /\ \A other \in Clients :
         (other.prefixUrl = client.prefixUrl /\ other.resource # client.resource)
           => requests[1].url # Url(other, requests[1].path)

\* a request that deletes on the collection root
DeletesOnRoot(request) == request.method = "DELETE" /\ request.path = ""

\* the query of a request holds one _q entry whose text decodes to an
\* object with at least one property
HasMatchExpression(request) ==
  /\ request.searchParams # Undefined
  /\ Cardinality(EntriesWithKey(request.searchParams, "_q")) = 1
  /\ LET i == CHOOSE j \in 1..Len(request.searchParams.pairs) :
                 request.searchParams.pairs[j].k = "_q"
         decoded == JsonDecode(request.searchParams.pairs[i].v)
     IN /\ decoded.ok
        /\ decoded.value.t = "object"
        /\ Len(decoded.value.pairs) > 0

\* C23: over any sequence of calls, no DELETE request to the collection
\* root is issued without a _q entry whose JSON-decoded value is a
\* non-empty match expression
C23_NoUnrestrictedDelete ==
  \A i \in 1..Len(requests) :
    DeletesOnRoot(requests[i]) => HasMatchExpression(requests[i])

\* what getExport yields for a body that arrives as a single chunk
SingleChunk(body) ==
  LET parsed == ParseNdjson(ChunkToString(body)) IN
  IF parsed.ok THEN Resolved(Arr(parsed.items))
  ELSE Rejected(GetHttpErrors(parsed.error))

\* C24: the result of getExport depends only on the concatenation of the
\* chunks received before 'end': however the body was split into chunks,
\* the call yields the records, or the failure, of the body in one chunk
C24_ChunkingIndependent ==
  (calls[1].pc = "settled" /\ calls[1].finished = Ended)
    => calls[1].outcome = SingleChunk(calls[1].emitted)

----------------------------------------------------------------------------
(* Settling of getExport *)

\* C25: a getExport call whose stream eventually emits 'end' or 'error'
\* eventually settles, and it is never settled while its stream is still
\* open, however many 'data' chunks have arrived
C25_SettlesOnEndOrError ==
  /\ []((op = "getExport" /\ pc = "settled") => stream \in {"ended", "errored"})
  /\ (pc = "streaming") ~> (pc = "settled")

\* a call of getExport that received several characters is settled, and
\* its stream has emitted 'end'
C25_Witness ==
  /\ op = "getExport"
  /\ pc = "settled"
  /\ stream = "ended"
  /\ Len(data) >= 2
  /\ outcome.kind = "resolved"

\* C26: a getExport call settles exactly once: the first of 'end' and
\* 'error' decides the outcome, and no later event of the stream changes
\* the result or the error the caller has received
C26_SettlesOnce ==
  /\ [][(pc = "settled" /\ pc' = "settled") => outcome' = outcome]_vars
  /\ [](pc = "settled" =>
          /\ stream \in {"ended", "ended, errored"} => outcome = ExportEnded(data)
          /\ stream \in {"errored", "errored, ended"}
               => outcome = ExportRejected(caught))

\* the stream raised an error, then emitted 'end' on a text that parses:
\* the call is still rejected with the error
C26_Witness ==
  /\ pc = "settled"
  /\ stream = "errored, ended"
  /\ ParseNdjson(data).ok
  /\ Len(data) > 0
  /\ outcome.kind = "rejected"

----------------------------------------------------------------------------
(* The message of the classified error *)

\* C27: the message field of the body of a failed response is used only
\* when it is a string: a message that is present but not a string is not
\* used, the classified message falls back to the failure's own text, and
\* so is always a string
C27_NonStringMessageSkipped ==
  \A e \in RequestErrors :
    (FailedWith(e) /\ BodyMessage(e).t \notin {"undefined", "string"}) =>
      /\ outcome.error.name = "HttpError"
      /\ outcome.error.message = e.message

----------------------------------------------------------------------------
(* Values of the query and the guard of delete *)

\* C28: for every Filter, queryFromFilter emits no entry whose value is
\* the empty string, also when the projection is an empty sequence or the
\* sort is the empty string
C28_NoEmptyValue ==
  (Len(requests) = 1 /\ filter # Undefined) =>
    \A i \in 1..Len(Query.pairs) : Query.pairs[i].v # ""

\* C29: a limit or a skip of 0 is written as it is, _l=0 or _sk=0, and is
\* not taken for an absent field
C29_ZeroIsEncoded ==
  (Len(requests) = 1 /\ filter # Undefined) =>
    /\ filter.limit = Num(0) =>
         /\ Cardinality(EntriesWithKey(Query, "_l")) = 1
         /\ TextUnder("_l") = "0"
    /\ filter.skip = Num(0) =>
         /\ Cardinality(EntriesWithKey(Query, "_sk")) = 1
         /\ TextUnder("_sk") = "0"

\* a request was issued for a filter whose limit and skip are both 0, and
\* its query holds _l=0 and _sk=0
C29_Witness ==
  /\ Len(requests) = 1
  /\ filter # Undefined
  /\ filter.limit = Num(0)
  /\ filter.skip = Num(0)
  /\ TextUnder("_l") = "0"
  /\ TextUnder("_sk") = "0"

\* the operations that take an optional Filter
OptionalFilterOperations ==
  { "getList", "getExport", "count", "getById", "upsertOne", "updateById",
    "updateMany" }

\* C30: the guard is that of delete only: an operation that takes an
\* optional Filter is not rejected locally when the Filter is absent or
\* its mongoQuery is absent or empty; it issues its request, with no _q
\* entry when the Filter or the mongoQuery is absent
C30_GuardOnDeleteOnly ==
  (op \in OptionalFilterOperations /\ pc # "idle") =>
    /\ Len(requests) = 1
    /\ filter = Undefined => Query = Undefined
    /\ (filter # Undefined /\ filter.mongoQuery = Undefined)
         => EntriesWithKey(Query, "_q") = {}

\* updateMany was called with an empty mongoQuery and its request was
\* issued
C30_Witness ==
  /\ op = "updateMany"
  /\ pc = "pending"
  /\ filter # Undefined
  /\ filter.mongoQuery = Obj(<<>>)
  /\ Len(requests) = 1
  /\ requests[1].method = "PATCH"

====
